---------------------------- MODULE Spec2Model ----------------------------
(***************************************************************************)
(* Model of src/app.py: the two request-authentication gates of the Flask  *)
(* application.                                                            *)
(*                                                                         *)
(*   - twiml(), route /twiml (lines 68-115): the hand-written gate.        *)
(*   - validate_twilio_request(), the decorator protecting                 *)
(*     decorator_test(), route /decorator_test (lines 52-66, 118-123).     *)
(*                                                                         *)
(* A Python str is a sequence of one-character strings; bytes are a        *)
(* sequence of numbers 0..255.  Several requests are in flight at once     *)
(* (one per worker of the WSGI server); each worker steps through the      *)
(* statements of the view function it runs.                                *)
(***************************************************************************)
EXTENDS Integers, Sequences, FiniteSets, TLC

(***************************************************************************)
(* Characters and strings                                                  *)
(***************************************************************************)

\* The printable ASCII characters, code 32 first (code 96 by its name).
Ascii ==
    <<" ", "!", "\"", "#", "$", "%", "&", "'", "(", ")", "*", "+", ",", "-", ".", "/">> \o
    <<"0", "1", "2", "3", "4", "5", "6", "7", "8", "9", ":", ";", "<", "=", ">", "?">> \o
    <<"@", "A", "B", "C", "D", "E", "F", "G", "H", "I", "J", "K", "L", "M", "N", "O">> \o
    <<"P", "Q", "R", "S", "T", "U", "V", "W", "X", "Y", "Z", "[", "\\", "]", "^", "_">> \o
    <<"GRAVE", "a", "b", "c", "d", "e", "f", "g", "h", "i", "j", "k", "l", "m", "n", "o">> \o
    <<"p", "q", "r", "s", "t", "u", "v", "w", "x", "y", "z", "{", "|", "}", "~">>

Chars == {Ascii[i] : i \in 1..Len(Ascii)}

\* ord(c): the code point of a character (its one UTF-8 byte, for ASCII).
Ord == [c \in Chars |-> 31 + (CHOOSE i \in 1..Len(Ascii) : Ascii[i] = c)]

\* chr(n) for a printable ASCII code.
Chr(n) == Ascii[n - 31]

\* str.encode("utf-8") and bytes.decode("utf-8") on ASCII text.
EncodeUtf8(s) == [i \in 1..Len(s) |-> Ord[s[i]]]
DecodeUtf8(b) == [i \in 1..Len(b) |-> Chr(b[i])]

\* Python's str < str: lexicographic by code point, a proper prefix first.
RECURSIVE StrLess(_, _)
StrLess(a, b) ==
    IF b = <<>> THEN FALSE
    ELSE IF a = <<>> THEN TRUE
    ELSE IF Ord[Head(a)] # Ord[Head(b)] THEN Ord[Head(a)] < Ord[Head(b)]
    ELSE StrLess(Tail(a), Tail(b))

\* Whether pat occurs in s at position i.
MatchAt(s, pat, i) ==
    /\ i + Len(pat) - 1 <= Len(s)
    /\ \A j \in 1..Len(pat) : s[i + j - 1] = pat[j]

\* re.sub(pat, repl, s) for a literal pattern: every non-overlapping
\* occurrence, leftmost first, is replaced.
RECURSIVE ReSubFrom(_, _, _, _)
ReSubFrom(pat, repl, s, i) ==
    IF i > Len(s) THEN <<>>
    ELSE IF MatchAt(s, pat, i) THEN repl \o ReSubFrom(pat, repl, s, i + Len(pat))
    ELSE <<s[i]>> \o ReSubFrom(pat, repl, s, i + 1)

ReSub(pat, repl, s) == ReSubFrom(pat, repl, s, 1)

\* str.lstrip(chars): leading characters that belong to the set chars go.
RECURSIVE LStrip(_, _)
LStrip(s, chars) ==
    IF s # <<>> /\ Head(s) \in chars THEN LStrip(Tail(s), chars) ELSE s

RECURSIVE RStrip(_, _)
RStrip(s, chars) ==
    IF s # <<>> /\ s[Len(s)] \in chars
    THEN RStrip(SubSeq(s, 1, Len(s) - 1), chars) ELSE s

\* str.strip(): leading and trailing whitespace goes.
Whitespace == {" "}
Strip(s) == RStrip(LStrip(s, Whitespace), Whitespace)

HTTP == <<"h", "t", "t", "p">>
HTTPS == <<"h", "t", "t", "p", "s">>
HTTPS_PREFIX == <<"h", "t", "t", "p", "s", ":", "/", "/">>
HTTP_PREFIX == <<"h", "t", "t", "p", ":", "/", "/">>


(***************************************************************************)
(* Canonicalisation: the string that is signed                             *)
(***************************************************************************)

\* A form field is a record [k |-> name, v |-> value].  request.form holds
\* the fields in the order of the wire body; items() yields them in that
\* order as (name, value) tuples.
FormItems(form) == form

\* Python's tuple order on (name, value): by name, then by value.
ItemLess(p, q) == StrLess(p.k, q.k) \/ (p.k = q.k /\ StrLess(p.v, q.v))

RECURSIVE InsertItem(_, _)
InsertItem(p, s) ==
    IF s = <<>> THEN <<p>>
    ELSE IF ItemLess(p, Head(s)) THEN <<p>> \o s
    ELSE <<Head(s)>> \o InsertItem(p, Tail(s))

RECURSIVE SortItems(_)
SortItems(items) ==
    IF items = <<>> THEN <<>>
    ELSE InsertItem(Head(items), SortItems(Tail(items)))

\* A faulty variant of the sort: a canonicaliser that keeps the wire order.
WireOrder(items) == items

\* sorted(request.form.items())                              app.py line 92
Sorted(items) == SortItems(items)

\* A canonicaliser that appends the field names only.
NameOnly(p) == p.k

\* k + v                                                      app.py line 93
ItemText(p) == p.k \o p.v

\* for k, v in ...: domain += k + v                      app.py lines 92-93
RECURSIVE AppendItems(_, _)
AppendItems(domain0, items) ==
    IF items = <<>> THEN domain0
    ELSE AppendItems(domain0 \o ItemText(Head(items)), Tail(items))

\* domain = re.sub('http', 'https', request.url)             app.py line 85
SchemeToHttps(url) == ReSub(HTTP, HTTPS, url)

\* The string twiml() signs for a request with a non-empty form.
\*                                                       app.py lines 85-93
TwimlCanonical(url, form) ==
    AppendItems(SchemeToHttps(url), Sorted(FormItems(form)))

\* 'https://' + request.url.lstrip('http://')                 app.py line 57
LSTRIP_SET == {"h", "t", "p", ":", "/"}
DecoratorUrl(url) == HTTPS_PREFIX \o LStrip(url, LSTRIP_SET)

(***************************************************************************)
(* Signing: hmac.new(key, msg, sha1).digest(), base64.b64encode            *)
(***************************************************************************)

\* SHA-1 yields 160 bits.
DigestSize == 20

\* The compression of SHA-1 is replaced by two polynomial accumulators
\* over the input bytes; the digest is DigestSize bytes that determine both.
\* What the model keeps of SHA-1: a deterministic function of the whole byte
\* string, sensitive to every byte and to their order.
\* h := (h * mult + byte + 1) % modulus over bytes[lo..hi], left to right
\* (the range is halved so that the evaluation stays shallow).
RECURSIVE AccRange(_, _, _, _, _, _)
AccRange(bytes, lo, hi, h, mult, modulus) ==
    IF lo > hi THEN h
    ELSE IF lo = hi THEN (h * mult + bytes[lo] + 1) % modulus
    ELSE LET mid == (lo + hi) \div 2
             left == AccRange(bytes, lo, mid, h, mult, modulus)
         IN  IF left >= 0 THEN AccRange(bytes, mid + 1, hi, left, mult, modulus)
             ELSE left

Accumulate(bytes, h, mult, modulus) ==
    AccRange(bytes, 1, Len(bytes), h, mult, modulus)

Sha1(bytes) ==
    LET h1 == Accumulate(bytes, 7, 31, 65521)
        h2 == Accumulate(bytes, 11, 131, 65519)
    IN  [i \in 1..DigestSize |->
            CASE i = 1 -> h1 \div 256
              [] i = 2 -> h1 % 256
              [] i = 3 -> h2 \div 256
              [] i = 4 -> h2 % 256
              [] OTHER -> (h1 * i + h2 * (i + 3) + i * i) % 256]

\* HMAC (RFC 2104): H((K xor opad) || H((K xor ipad) || msg)); the pads are
\* added to the key bytes modulo 256 in place of xor.
HmacSha1(keyBytes, msgBytes) ==
    LET ipad == [i \in 1..Len(keyBytes) |-> (keyBytes[i] + 54) % 256] \o <<54>>
        opad == [i \in 1..Len(keyBytes) |-> (keyBytes[i] + 92) % 256] \o <<92>>
    IN  Sha1(opad \o Sha1(ipad \o msgBytes))

\* The base64 alphabet (RFC 4648).
B64 ==
    <<"A", "B", "C", "D", "E", "F", "G", "H", "I", "J", "K", "L", "M", "N", "O", "P">> \o
    <<"Q", "R", "S", "T", "U", "V", "W", "X", "Y", "Z", "a", "b", "c", "d", "e", "f">> \o
    <<"g", "h", "i", "j", "k", "l", "m", "n", "o", "p", "q", "r", "s", "t", "u", "v">> \o
    <<"w", "x", "y", "z", "0", "1", "2", "3", "4", "5", "6", "7", "8", "9", "+", "/">>

B64Byte(n) == Ord[B64[n + 1]]
PadByte == Ord["="]

\* base64.b64encode(bytes): three bytes give four characters, the tail is
\* padded with "=".  The result is bytes (ASCII codes).
RECURSIVE B64Encode(_)
B64Encode(b) ==
    IF Len(b) = 0 THEN <<>>
    ELSE IF Len(b) = 1 THEN
        <<B64Byte(b[1] \div 4), B64Byte((b[1] % 4) * 16), PadByte, PadByte>>
    ELSE IF Len(b) = 2 THEN
        <<B64Byte(b[1] \div 4),
          B64Byte((b[1] % 4) * 16 + b[2] \div 16),
          B64Byte((b[2] % 16) * 4), PadByte>>
    ELSE
        <<B64Byte(b[1] \div 4),
          B64Byte((b[1] % 4) * 16 + b[2] \div 16),
          B64Byte((b[2] % 16) * 4 + b[3] \div 64),
          B64Byte(b[3] % 64)>> \o B64Encode(SubSeq(b, 4, Len(b)))

\* mac = hmac.new(bytes(TWILIO_AUTH_TOKEN, 'UTF-8'), domain.encode("utf-8"),
\* sha1); computed = base64.b64encode(mac.digest()).decode('utf-8');
\* diy_signature = computed.strip()                     app.py lines 98-107
Sign(token, text) ==
    Strip(DecodeUtf8(B64Encode(HmacSha1(EncodeUtf8(token), EncodeUtf8(text)))))


(***************************************************************************)
(* The library validator used by the decorator                             *)
(* (twilio.request_validator.RequestValidator, called at app.py 56, 62)    *)
(***************************************************************************)

\* compute_signature(uri, params): the uri, then, when there are params,
\* name + value for each name in sorted order; HMAC-SHA1, base64, strip.
\* (The algorithm is the one app.py lines 78-110 quote from the provider's
\* documentation.)  With no params the uri alone is signed.
ComputeSignature(token, uri, params) ==
    LET s == IF params # <<>>
             THEN AppendItems(uri, SortItems(FormItems(params)))
             ELSE uri
    IN  Sign(token, s)

\* validator.validate(https_url, params, twilio_signature)   app.py line 62
\* (The library also accepts the signature of the uri written with its
\* default port; no request of the model carries such a signature.)
LibValidate(token, uri, params, signature) ==
    ComputeSignature(token, uri, params) = signature

(***************************************************************************)
(* Responses                                                               *)
(***************************************************************************)

HTTP_OK == 200
HTTP_BAD_REQUEST == 400
HTTP_FORBIDDEN == 403
HTTP_TEAPOT == 418
HTTP_SERVER_ERROR == 500

Accepted == "Accepted"
RejectedNoSignatureHeader == "RejectedNoSignatureHeader"
RejectedNoBody == "RejectedNoBody"
RejectedMismatch == "RejectedMismatch"
\* An exception that leaves the view function: Flask answers 500.
UnhandledException == "UnhandledException"

Resp(o, st) == [outcome |-> o, status |-> st]
NoResponse == Resp("none", 0)

(***************************************************************************)
(* The two gates as functions of (token, request)                          *)
(***************************************************************************)

\* twiml()                                              app.py lines 69-115
TwimlValidate(token, r) ==
    IF ~r.header.present THEN Resp(RejectedNoSignatureHeader, HTTP_TEAPOT)
    ELSE IF r.form = <<>> THEN Resp(RejectedNoBody, HTTP_BAD_REQUEST)
    ELSE IF ~token.set THEN Resp(UnhandledException, HTTP_SERVER_ERROR)
    ELSE IF Sign(token.value, TwimlCanonical(r.url, r.form)) # r.header.value
         THEN Resp(RejectedMismatch, HTTP_FORBIDDEN)
    ELSE Resp(Accepted, HTTP_OK)

\* decorated() around decorator_test()          app.py lines 55-64, 120-123
DecoratorValidate(token, r) ==
    IF ~token.set THEN Resp(UnhandledException, HTTP_SERVER_ERROR)
    ELSE IF ~r.header.present \/ r.header.value = <<>>
         THEN Resp(RejectedNoSignatureHeader, HTTP_SERVER_ERROR)
    ELSE IF ~LibValidate(token.value, DecoratorUrl(r.url), r.form, r.header.value)
         THEN Resp(RejectedMismatch, HTTP_FORBIDDEN)
    ELSE Resp(Accepted, HTTP_OK)

TWIML == "/twiml"
DECORATOR_TEST == "/decorator_test"
Routes == {TWIML, DECORATOR_TEST}

\* What a request to a route yields when it is the only one in the process.
ValidateAlone(rt, token, r) ==
    IF rt = TWIML THEN TwimlValidate(token, r) ELSE DecoratorValidate(token, r)


(***************************************************************************)
(* Inputs: the environment's token and the requests a client can send      *)
(***************************************************************************)

MaxFields == 2
NumWorkers == 2

SECRET == <<"s", "e", "c", "r", "e", "t">>

\* os.getenv('TWILIO_AUTH_TOKEN'): None when the variable is unset, else
\* its value, which may be the empty string.             app.py line 43
TokenUnset == [set |-> FALSE, value |-> <<>>]
TokenEmpty == [set |-> TRUE, value |-> <<>>]
TokenSecret == [set |-> TRUE, value |-> SECRET]
Environments == {TokenUnset, TokenEmpty, TokenSecret}

URL_HTTP ==
    <<"h", "t", "t", "p", ":", "/", "/", "e", "x", "a", "m", "p", "l", "e",
      ".", "c", "o", "m", "/", "h", "o", "o", "k">>
URL_HTTPS ==
    <<"h", "t", "t", "p", "s", ":", "/", "/", "e", "x", "a", "m", "p", "l", "e",
      ".", "c", "o", "m", "/", "h", "o", "o", "k">>
URL_TCO ==
    <<"h", "t", "t", "p", ":", "/", "/", "t", ".", "c", "o", "/", "h", "t", "t", "p">>
Urls == {URL_HTTP, URL_HTTPS, URL_TCO}

Names == {<<>>, <<"a">>, <<"B">>}
Values == {<<>>, <<"a">>}
Fields == [k : Names, v : Values]

DistinctNames(form) ==
    \A i, j \in 1..Len(form) : i # j => form[i].k # form[j].k

\* The known vector: the single field Name=value.
KnownForm == <<[k |-> <<"N", "a", "m", "e">>, v |-> <<"v", "a", "l", "u", "e">>]>>

\* request.form: a mapping from field name to value, in wire order.
Forms ==
    {f \in UNION {[1..n -> Fields] : n \in 0..MaxFields} : DistinctNames(f)}
        \cup {KnownForm}

Absent == [present |-> FALSE, value |-> <<>>]
Present(v) == [present |-> TRUE, value |-> v]

\* The url with its scheme component alone set to https.
ForceHttps(url) ==
    IF MatchAt(url, HTTPS_PREFIX, 1) THEN url
    ELSE IF MatchAt(url, HTTP_PREFIX, 1)
         THEN HTTPS_PREFIX \o SubSeq(url, Len(HTTP_PREFIX) + 1, Len(url))
    ELSE url

\* One character of a signature changed.
FlipFirst(sig) ==
    IF sig = <<>> THEN <<"A">>
    ELSE <<(IF Head(sig) = "A" THEN "B" ELSE "A")>> \o Tail(sig)

IsUpper(c) == Ord[c] \in 65..90
IsLower(c) == Ord[c] \in 97..122

\* The case of the first letter of a signature changed.
SwapCase(sig) ==
    LET letters == {i \in 1..Len(sig) : IsUpper(sig[i]) \/ IsLower(sig[i])}
    IN  IF letters = {} THEN sig
        ELSE LET i == CHOOSE x \in letters : \A y \in letters : x <= y
             IN  [sig EXCEPT ![i] = IF IsUpper(sig[i]) THEN Chr(Ord[sig[i]] + 32)
                                    ELSE Chr(Ord[sig[i]] - 32)]

WithSpace(sig) == sig \o <<" ">>

\* The signature the provider sends for a request under token t.
ProviderSignature(t, url, form) ==
    Sign(t, AppendItems(ForceHttps(url), SortItems(form)))

\* The X-Twilio-Signature values a client may send with (url, form): none,
\* empty, the signatures the two gates compute for it (under the secret and
\* under the empty token), the provider's, and damaged copies.
Headers(url, form) ==
    LET tg == Sign(SECRET, TwimlCanonical(url, form))
        dg == ComputeSignature(SECRET, DecoratorUrl(url), form)
    IN  {Absent, Present(<<>>), Present(tg), Present(dg),
         Present(ProviderSignature(SECRET, url, form)),
         Present(Sign(<<>>, TwimlCanonical(url, form))),
         Present(FlipFirst(tg)), Present(SwapCase(tg)), Present(WithSpace(tg))}

Requests ==
    UNION {{[url |-> u, header |-> h, form |-> f] : h \in Headers(u, f)} :
           u \in Urls, f \in Forms}

\* Every request to either route.
AllCalls == {[route |-> rt, req |-> r] : rt \in Routes, r \in Requests}

\* The requests of the concurrent runs: one url, the empty form and a
\* two-field form out of order, sent signed, damaged or unsigned.
FormBA == <<[k |-> <<"a">>, v |-> <<"a">>], [k |-> <<"B">>, v |-> <<>>]>>
SignedBA == Present(Sign(SECRET, TwimlCanonical(URL_HTTP, FormBA)))
ConcurrentCalls ==
    {[route |-> TWIML,
      req |-> [url |-> URL_HTTP, header |-> SignedBA, form |-> FormBA]],
     [route |-> TWIML,
      req |-> [url |-> URL_HTTP, header |-> Present(FlipFirst(SignedBA.value)),
               form |-> FormBA]],
     [route |-> TWIML,
      req |-> [url |-> URL_TCO, header |-> SignedBA, form |-> <<>>]],
     [route |-> DECORATOR_TEST,
      req |-> [url |-> URL_HTTP, header |-> SignedBA, form |-> FormBA]],
     [route |-> DECORATOR_TEST,
      req |-> [url |-> URL_HTTP, header |-> Absent, form |-> FormBA]]}

Workers == 1..NumWorkers
MainWorker == CHOOSE w \in Workers : \A v \in Workers : w <= v

(***************************************************************************)
(* State                                                                   *)
(***************************************************************************)

VARIABLES
    TWILIO_AUTH_TOKEN,  \* the module-level global               line 43
    pc,                 \* per worker: the statement it is at
    route,              \* per worker: the route of its request
    request,            \* per worker: flask.request (url, header, form)
    twil_sig,           \* twiml():     local twil_sig           line 72
    domain,             \* twiml():     local domain             line 85
    computed,           \* twiml():     local diy_signature      line 107
    validator,          \* decorated(): the validator's token    line 56
    https_url,          \* decorated(): local https_url          line 57
    response,           \* per worker: what the view returned
    calls,              \* per worker: calls of decorator_test() for its request
    prev                \* one earlier validation and its result, or none

vars == <<TWILIO_AUTH_TOKEN, pc, route, request, twil_sig, domain, computed,
          validator, https_url, response, calls, prev>>

NoRequest == [url |-> <<>>, header |-> Absent, form |-> <<>>]

Init ==
    /\ TWILIO_AUTH_TOKEN \in Environments
    /\ pc = [w \in Workers |-> "idle"]
    /\ route = [w \in Workers |-> TWIML]
    /\ request = [w \in Workers |-> NoRequest]
    /\ twil_sig = [w \in Workers |-> <<>>]
    /\ domain = [w \in Workers |-> <<>>]
    /\ computed = [w \in Workers |-> <<>>]
    /\ validator = [w \in Workers |-> <<>>]
    /\ https_url = [w \in Workers |-> <<>>]
    /\ response = [w \in Workers |-> NoResponse]
    /\ calls = [w \in Workers |-> 0]
    /\ prev = <<>>

\* return of the view function with outcome o and status st.
Return(w, o, st) ==
    /\ response' = [response EXCEPT ![w] = Resp(o, st)]
    /\ pc' = [pc EXCEPT ![w] = "done"]

\* The dispatcher hands worker w a request of the pool: a fresh call frame.
Receive(w, pool) ==
    /\ pc[w] = "idle"
    /\ \E c \in pool :
        /\ route' = [route EXCEPT ![w] = c.route]
        /\ request' = [request EXCEPT ![w] = c.req]
        /\ pc' = [pc EXCEPT ![w] = IF c.route = TWIML THEN "t_header"
                                   ELSE "d_validator"]
    /\ UNCHANGED <<TWILIO_AUTH_TOKEN, twil_sig, domain, computed, validator,
                   https_url, response, calls, prev>>


(***************************************************************************)
(* twiml(), statement by statement                                         *)
(***************************************************************************)

\* try: twil_sig = request.headers['X-Twilio-Signature']
\* except KeyError: return (..., 418)                    app.py lines 71-75
T_Header(w) ==
    /\ pc[w] = "t_header"
    /\ IF request[w].header.present
       THEN /\ twil_sig' = [twil_sig EXCEPT ![w] = request[w].header.value]
            /\ pc' = [pc EXCEPT ![w] = "t_url"]
            /\ UNCHANGED response
       ELSE /\ Return(w, RejectedNoSignatureHeader, HTTP_TEAPOT)
            /\ UNCHANGED twil_sig
    /\ UNCHANGED <<TWILIO_AUTH_TOKEN, route, request, domain, computed,
                   validator, https_url, calls, prev>>

\* A normalisation that writes the https url back into the request.
T_UrlInPlace(w) ==
    /\ pc[w] = "t_url"
    /\ domain' = [domain EXCEPT ![w] = SchemeToHttps(request[w].url)]
    /\ request' = [request EXCEPT ![w].url = SchemeToHttps(request[w].url)]
    /\ pc' = [pc EXCEPT ![w] = "t_form"]
    /\ UNCHANGED <<TWILIO_AUTH_TOKEN, route, twil_sig, computed, validator,
                   https_url, response, calls, prev>>

\* domain = re.sub('http', 'https', request.url)             app.py line 85
T_Url(w) ==
    /\ pc[w] = "t_url"
    /\ domain' = [domain EXCEPT ![w] = SchemeToHttps(request[w].url)]
    /\ pc' = [pc EXCEPT ![w] = "t_form"]
    /\ UNCHANGED <<TWILIO_AUTH_TOKEN, route, request, twil_sig, computed,
                   validator, https_url, response, calls, prev>>

\* A canonicaliser whose domain is one module-level variable: every
\* worker's string receives the fields.
T_FormGlobal(w) ==
    /\ pc[w] = "t_form"
    /\ IF request[w].form # <<>>
       THEN /\ domain' = [x \in Workers |->
                            AppendItems(domain[w], Sorted(FormItems(request[w].form)))]
            /\ pc' = [pc EXCEPT ![w] = "t_sign"]
            /\ UNCHANGED response
       ELSE /\ Return(w, RejectedNoBody, HTTP_BAD_REQUEST)
            /\ UNCHANGED domain
    /\ UNCHANGED <<TWILIO_AUTH_TOKEN, route, request, twil_sig, computed,
                   validator, https_url, calls, prev>>

\* if request.form: for k, v in sorted(request.form.items()): domain += k + v
\* else: return (..., 400)                               app.py lines 91-95
T_Form(w) ==
    /\ pc[w] = "t_form"
    /\ IF request[w].form # <<>>
       THEN /\ domain' = [domain EXCEPT ![w] =
                            AppendItems(domain[w], Sorted(FormItems(request[w].form)))]
            /\ pc' = [pc EXCEPT ![w] = "t_sign"]
            /\ UNCHANGED response
       ELSE /\ Return(w, RejectedNoBody, HTTP_BAD_REQUEST)
            /\ UNCHANGED domain
    /\ UNCHANGED <<TWILIO_AUTH_TOKEN, route, request, twil_sig, computed,
                   validator, https_url, calls, prev>>

\* mac = hmac.new(bytes(TWILIO_AUTH_TOKEN, 'UTF-8'), ...): bytes(None, ...)
\* raises TypeError; otherwise the signature is computed.
\*                                                      app.py lines 98-107
T_Sign(w) ==
    /\ pc[w] = "t_sign"
    /\ IF TWILIO_AUTH_TOKEN.set
       THEN /\ computed' = [computed EXCEPT ![w] =
                              Sign(TWILIO_AUTH_TOKEN.value, domain[w])]
            /\ pc' = [pc EXCEPT ![w] = "t_compare"]
            /\ UNCHANGED response
       ELSE /\ Return(w, UnhandledException, HTTP_SERVER_ERROR)
            /\ UNCHANGED computed
    /\ UNCHANGED <<TWILIO_AUTH_TOKEN, route, request, twil_sig, domain,
                   validator, https_url, calls, prev>>

\* if diy_signature != twil_sig: return (..., 403)
\* else: return Response(...)                          app.py lines 111-115
T_Compare(w) ==
    /\ pc[w] = "t_compare"
    /\ IF computed[w] # twil_sig[w]
       THEN Return(w, RejectedMismatch, HTTP_FORBIDDEN)
       ELSE Return(w, Accepted, HTTP_OK)
    /\ UNCHANGED <<TWILIO_AUTH_TOKEN, route, request, twil_sig, domain, computed,
                   validator, https_url, calls, prev>>

(***************************************************************************)
(* decorated() of validate_twilio_request(), statement by statement        *)
(***************************************************************************)

\* validator = RequestValidator(TWILIO_AUTH_TOKEN): the constructor encodes
\* the token (token.encode("utf-8")), which raises AttributeError on None.
\*                                                           app.py line 56
D_Validator(w) ==
    /\ pc[w] = "d_validator"
    /\ IF TWILIO_AUTH_TOKEN.set
       THEN /\ validator' = [validator EXCEPT ![w] = TWILIO_AUTH_TOKEN.value]
            /\ pc' = [pc EXCEPT ![w] = "d_url"]
            /\ UNCHANGED response
       ELSE /\ Return(w, UnhandledException, HTTP_SERVER_ERROR)
            /\ UNCHANGED validator
    /\ UNCHANGED <<TWILIO_AUTH_TOKEN, route, request, twil_sig, domain, computed,
                   https_url, calls, prev>>

\* https_url = 'https://' + request.url.lstrip('http://')     app.py line 57
D_Url(w) ==
    /\ pc[w] = "d_url"
    /\ https_url' = [https_url EXCEPT ![w] = DecoratorUrl(request[w].url)]
    /\ pc' = [pc EXCEPT ![w] = "d_header"]
    /\ UNCHANGED <<TWILIO_AUTH_TOKEN, route, request, twil_sig, domain, computed,
                   validator, response, calls, prev>>

\* twilio_signature = request.headers.get('X-Twilio-Signature')
\* if not twilio_signature: return Response('No signature', 500)
\* (None and the empty string are both false)            app.py lines 58-61
D_Header(w) ==
    /\ pc[w] = "d_header"
    /\ IF request[w].header.present /\ request[w].header.value # <<>>
       THEN /\ pc' = [pc EXCEPT ![w] = "d_validate"]
            /\ UNCHANGED response
       ELSE Return(w, RejectedNoSignatureHeader, HTTP_SERVER_ERROR)
    /\ UNCHANGED <<TWILIO_AUTH_TOKEN, route, request, twil_sig, domain, computed,
                   validator, https_url, calls, prev>>

\* elif not validator.validate(https_url, params, twilio_signature):
\*     return Response('Incorrect signature', 403)       app.py lines 62-63
D_Validate(w) ==
    /\ pc[w] = "d_validate"
    /\ IF LibValidate(validator[w], https_url[w], request[w].form,
                      request[w].header.value)
       THEN /\ pc' = [pc EXCEPT ![w] = "d_handler"]
            /\ UNCHANGED response
       ELSE Return(w, RejectedMismatch, HTTP_FORBIDDEN)
    /\ UNCHANGED <<TWILIO_AUTH_TOKEN, route, request, twil_sig, domain, computed,
                   validator, https_url, calls, prev>>

\* return f(*args, **kwargs): decorator_test() runs and answers
\*                                              app.py lines 64, 120-123
D_Handler(w) ==
    /\ pc[w] = "d_handler"
    /\ calls' = [calls EXCEPT ![w] = calls[w] + 1]
    /\ Return(w, Accepted, HTTP_OK)
    /\ UNCHANGED <<TWILIO_AUTH_TOKEN, route, request, twil_sig, domain, computed,
                   validator, https_url, prev>>

\* The response is sent and the call frame is gone.  With remember, the
\* validation and its result are kept for comparison with later ones.
Finish(w, remember) ==
    /\ pc[w] = "done"
    /\ prev' = IF remember
               THEN <<[route |-> route[w], req |-> request[w], resp |-> response[w]]>>
               ELSE prev
    /\ pc' = [pc EXCEPT ![w] = "idle"]
    /\ route' = [route EXCEPT ![w] = TWIML]
    /\ request' = [request EXCEPT ![w] = NoRequest]
    /\ twil_sig' = [twil_sig EXCEPT ![w] = <<>>]
    /\ domain' = [domain EXCEPT ![w] = <<>>]
    /\ computed' = [computed EXCEPT ![w] = <<>>]
    /\ validator' = [validator EXCEPT ![w] = <<>>]
    /\ https_url' = [https_url EXCEPT ![w] = <<>>]
    /\ response' = [response EXCEPT ![w] = NoResponse]
    /\ calls' = [calls EXCEPT ![w] = 0]
    /\ UNCHANGED TWILIO_AUTH_TOKEN

Step(w) ==
    \/ T_Header(w) \/ T_Url(w) \/ T_Form(w) \/ T_Sign(w) \/ T_Compare(w)
    \/ D_Validator(w) \/ D_Url(w) \/ D_Header(w) \/ D_Validate(w) \/ D_Handler(w)

\* Several workers, the requests of the concurrent runs.
Next ==
    \E w \in Workers :
        \/ Receive(w, ConcurrentCalls)
        \/ Step(w)
        \/ \E remember \in BOOLEAN : Finish(w, remember)

Spec == Init /\ [][Next]_vars

\* One worker, every request.
NextSeq ==
    \E w \in {MainWorker} :
        \/ Receive(w, AllCalls)
        \/ Step(w)
        \/ \E remember \in {FALSE} : Finish(w, remember)

SpecSeq == Init /\ [][NextSeq]_vars

\* One worker, every request, in a process started with the secret set.
InitConfigured == Init /\ TWILIO_AUTH_TOKEN = TokenSecret

SpecConfigured == InitConfigured /\ [][NextSeq]_vars


(***************************************************************************)
(* Properties                                                              *)
(***************************************************************************)

Rejections == {RejectedNoSignatureHeader, RejectedNoBody, RejectedMismatch}

TokenMissing == ~TWILIO_AUTH_TOKEN.set \/ TWILIO_AUTH_TOKEN.value = <<>>

\* Worker w runs twiml() and has built the whole canonical string.
Canonicalised(w) ==
    /\ route[w] = TWIML
    /\ \/ pc[w] \in {"t_sign", "t_compare"}
       \/ pc[w] = "done" /\ request[w].header.present /\ request[w].form # <<>>

\* The fields of a form as a set, and the same fields in another wire order.
FieldSet(form) == {form[i] : i \in 1..Len(form)}
Reorderings(form) ==
    {f \in [1..Len(form) -> FieldSet(form)] : FieldSet(f) = FieldSet(form)}

\* The fields in ascending byte order of their names (names are distinct).
Ascending(form) ==
    CHOOSE f \in Reorderings(form) :
        \A i, j \in 1..Len(f) : i < j => StrLess(f[i].k, f[j].k)

\* C1: a request to /twiml with a signature header and a non-empty form is
\* Accepted (200) exactly when the signature computed over its canonical
\* string equals the header value character for character, and is
\* RejectedMismatch (403) otherwise.
C1_AcceptedIffSignatureEqual ==
    \A w \in Workers :
        (/\ pc[w] = "done"
         /\ route[w] = TWIML
         /\ request[w].header.present
         /\ request[w].form # <<>>)
        => LET equal ==
                   /\ TWILIO_AUTH_TOKEN.set
                   /\ Sign(TWILIO_AUTH_TOKEN.value,
                           TwimlCanonical(request[w].url, request[w].form))
                          = request[w].header.value
           IN  response[w] = IF equal THEN Resp(Accepted, HTTP_OK)
                             ELSE Resp(RejectedMismatch, HTTP_FORBIDDEN)

\* C1 in a process whose token is set (also the empty one): holds.
C1_WhenTokenSet == TWILIO_AUTH_TOKEN.set => C1_AcceptedIffSignatureEqual

\* C2: decorator_test() is called only for a request with a signature
\* header, at least one form field and a claimed signature equal to the
\* computed one; after a rejection its call count is 0.
C2_HandlerOnlyWhenAccepted ==
    \A w \in Workers :
        route[w] = DECORATOR_TEST =>
            /\ calls[w] > 0 =>
                /\ request[w].header.present
                /\ request[w].form # <<>>
                /\ ComputeSignature(validator[w], https_url[w], request[w].form)
                       = request[w].header.value
            /\ (pc[w] = "done" /\ response[w].outcome \in Rejections) => calls[w] = 0

\* C2 without the form rule: the handler runs only after the library
\* validator accepted the claimed signature: holds.
C2_HandlerOnlyAfterValidate ==
    \A w \in Workers :
        (route[w] = DECORATOR_TEST /\ calls[w] > 0) =>
            /\ request[w].header.present
            /\ ComputeSignature(validator[w], https_url[w], request[w].form)
                   = request[w].header.value

\* C3: a request without the signature header yields
\* RejectedNoSignatureHeader, whatever its body.
C3_NoHeaderAlwaysRejected ==
    \A w \in Workers :
        (pc[w] = "done" /\ ~request[w].header.present)
            => response[w].outcome = RejectedNoSignatureHeader

\* C3 in a process whose token is set: holds.
C3_WhenTokenSet == TWILIO_AUTH_TOKEN.set => C3_NoHeaderAlwaysRejected

\* C4: a request with a (non-empty) signature header and no form field
\* yields RejectedNoBody (400); no signature is computed or compared for it.
C4_NoBodyNeverSigned ==
    \A w \in Workers :
        (pc[w] # "idle" /\ request[w].header.present
            /\ request[w].header.value # <<>> /\ request[w].form = <<>>)
            => /\ pc[w] \notin {"t_sign", "t_compare", "d_validate", "d_handler"}
               /\ computed[w] = <<>>
               /\ pc[w] = "done" => response[w] = Resp(RejectedNoBody, HTTP_BAD_REQUEST)

\* C4 on the route /twiml alone: holds.
C4_OnTwiml ==
    \A w \in Workers :
        (pc[w] # "idle" /\ route[w] = TWIML /\ request[w].header.present
            /\ request[w].form = <<>>)
            => /\ pc[w] \notin {"t_sign", "t_compare"}
               /\ computed[w] = <<>>
               /\ pc[w] = "done" => response[w] = Resp(RejectedNoBody, HTTP_BAD_REQUEST)

KnownCanonical ==
    <<"h", "t", "t", "p", "s", ":", "/", "/", "e", "x", "a", "m", "p", "l", "e",
      ".", "c", "o", "m", "/", "h", "o", "o", "k",
      "N", "a", "m", "e", "v", "a", "l", "u", "e">>

\* C5: the canonical string is the url with its scheme alone forced to
\* https, then the name and value of each field in ascending order of name;
\* the known vector gives "https://example.com/hookNamevalue".
C5_SchemeForcedToHttps ==
    \A w \in Workers :
        Canonicalised(w) =>
            /\ domain[w] = AppendItems(ForceHttps(request[w].url),
                                       Ascending(request[w].form))
            /\ (request[w].url = URL_HTTPS /\ request[w].form = KnownForm)
                   => domain[w] = KnownCanonical

\* C5 for the url the decorator hands to the library validator: violated
\* as well (lstrip removes a set of characters, not a prefix).
C5_DecoratorUrl ==
    \A w \in Workers :
        (route[w] = DECORATOR_TEST /\ pc[w] \in {"d_header", "d_validate", "d_handler"})
            => https_url[w] = ForceHttps(request[w].url)

\* C5 for the urls that report http and hold no other "http": holds.
C5_PlainHttpUrl ==
    \A w \in Workers :
        (Canonicalised(w) /\ request[w].url = URL_HTTP) =>
            domain[w] = AppendItems(ForceHttps(request[w].url),
                                    Ascending(request[w].form))

\* C6: the same fields in any wire order (same url, same claimed
\* signature) give the same canonical string and the same outcome; the
\* fields are appended in ascending byte order of name.
C6_SortingInvariance ==
    \A w \in Workers :
        Canonicalised(w) =>
            /\ domain[w] = AppendItems(SchemeToHttps(request[w].url),
                                       Ascending(request[w].form))
            /\ \A f \in Reorderings(request[w].form) :
                /\ TwimlCanonical(request[w].url, f) = domain[w]
                /\ pc[w] = "done" =>
                      TwimlValidate(TWILIO_AUTH_TOKEN,
                                    [request[w] EXCEPT !.form = f]) = response[w]

\* C6 witness: a request whose two fields arrive in descending order of
\* name was canonicalised and Accepted.
C6_Witness ==
    \E w \in Workers :
        /\ pc[w] = "done"
        /\ route[w] = TWIML
        /\ response[w].outcome = Accepted
        /\ Len(request[w].form) = 2
        /\ StrLess(request[w].form[2].k, request[w].form[1].k)

\* The forms one step away: one value changed, one field added, one removed
\* (a field whose name and value are both empty has no text to add or remove).
ValueChanges(form) ==
    {[form EXCEPT ![i].v = v2] : i \in 1..Len(form), v2 \in Values} \ {form}
Additions(form) ==
    {Append(form, fld) : fld \in {x \in Fields :
        /\ \A i \in 1..Len(form) : form[i].k # x.k
        /\ x.k \o x.v # <<>>}}
Removals(form) ==
    {SubSeq(form, 1, i - 1) \o SubSeq(form, i + 1, Len(form)) :
        i \in {x \in 1..Len(form) : form[x].k \o form[x].v # <<>>}}
SingleEdits(form) == ValueChanges(form) \cup Additions(form) \cup Removals(form)

\* C7 as stated: a non-empty form with another field set never has the
\* canonical string of this request.
C7_FieldSetsNeverCollide ==
    \A w \in Workers :
        (route[w] = TWIML /\ pc[w] = "t_sign") =>
            \A f \in Forms \ {<<>>} :
                FieldSet(f) # FieldSet(request[w].form)
                    => TwimlCanonical(request[w].url, f) # domain[w]

\* C7 amended: changing one value, or adding or removing one field whose
\* name and value are not both empty, changes the canonical string.
C7_SingleEditChangesCanonical ==
    \A w \in Workers :
        (route[w] = TWIML /\ pc[w] = "t_sign") =>
            \A f \in SingleEdits(request[w].form) :
                TwimlCanonical(request[w].url, f) # domain[w]

\* C7 witness: a canonicalised two-field request that has a neighbour of
\* each kind.
C7_Witness ==
    \E w \in Workers :
        /\ route[w] = TWIML
        /\ pc[w] = "t_sign"
        /\ Len(request[w].form) = 2
        /\ ValueChanges(request[w].form) # {}
        /\ Additions(request[w].form) # {}
        /\ Removals(request[w].form) # {}

\* C8: with the token unset or empty, no request is validated against it:
\* none is Accepted, none is compared, and no failure is answered per request.
C8_NoValidationWithoutKey ==
    TokenMissing =>
        \A w \in Workers :
            /\ pc[w] \notin {"t_compare", "d_validate", "d_handler"}
            /\ response[w].outcome \notin {Accepted, RejectedMismatch, UnhandledException}

\* C9: a validation of the request and route of an earlier one yields the
\* earlier result, whatever ran in between; no step changes the token or
\* the request of a validation in progress.
C9_Repeatable ==
    /\ [](\A w \in Workers :
            (/\ pc[w] = "done"
             /\ prev # <<>>
             /\ prev[1].route = route[w]
             /\ prev[1].req = request[w])
            => response[w] = prev[1].resp)
    /\ [][/\ TWILIO_AUTH_TOKEN' = TWILIO_AUTH_TOKEN
          /\ \A w \in Workers :
                (pc[w] # "idle" /\ pc'[w] # "idle") => request'[w] = request[w]]_vars

\* C9 witness: an Accepted request is validated again, after another
\* validation was remembered and then this one.
C9_Witness ==
    \E w \in Workers :
        /\ pc[w] = "done"
        /\ prev # <<>>
        /\ prev[1].route = route[w]
        /\ prev[1].req = request[w]
        /\ response[w].outcome = Accepted

\* What the locals of worker w hold if only its own request wrote them.
OwnLocals(w) ==
    /\ pc[w] = "t_form" => domain[w] = SchemeToHttps(request[w].url)
    /\ pc[w] \in {"t_url", "t_form", "t_sign", "t_compare"}
          => twil_sig[w] = request[w].header.value
    /\ pc[w] \in {"t_sign", "t_compare"}
          => domain[w] = TwimlCanonical(request[w].url, request[w].form)
    /\ pc[w] = "t_compare"
          => computed[w] = Sign(TWILIO_AUTH_TOKEN.value,
                                TwimlCanonical(request[w].url, request[w].form))
    /\ pc[w] \in {"d_url", "d_header", "d_validate", "d_handler"}
          => validator[w] = TWILIO_AUTH_TOKEN.value
    /\ pc[w] \in {"d_header", "d_validate", "d_handler"}
          => https_url[w] = DecoratorUrl(request[w].url)

\* C10: however the steps of concurrent validations interleave, each worker's
\* canonical string and signature are those of its own request, its outcome
\* is the one the request yields alone, and no step writes the token.
C10_Isolation ==
    /\ [](\A w \in Workers :
            /\ OwnLocals(w)
            /\ pc[w] = "done"
                  => response[w] = ValidateAlone(route[w], TWILIO_AUTH_TOKEN, request[w]))
    /\ [][TWILIO_AUTH_TOKEN' = TWILIO_AUTH_TOKEN]_vars

\* C10 witness: one worker has Accepted its request while another, with a
\* different request, is between signing and comparing.
C10_Witness ==
    \E w1, w2 \in Workers :
        /\ w1 # w2
        /\ pc[w1] = "done"
        /\ response[w1].outcome = Accepted
        /\ pc[w2] = "t_compare"
        /\ request[w2] # request[w1]

=============================================================================
